---- MODULE Spec2Model ----
(***************************************************************************)
(* Flight path calculator of the disc golf client (lib/flightCalculator). *)
(*                                                                         *)
(* calculateFlightPath(flightNumbers, throwType, config) is a pure         *)
(* function: the state machine below is one caller that holds the          *)
(* arguments of a call and, after the call, what the call produced.        *)
(* SpecRepeat lets the caller call again and again and remember an earlier *)
(* call (remembered); SpecCalls adds callers whose calls are in progress   *)
(* at the same time (frames holds the activation of each).                 *)
(*                                                                         *)
(* Services (services/discs, services/recovery, services/apiValidation).   *)
(* SpecService follows one call of a discService or recoveryService method *)
(* from the request it hands to apiRequest, over the response or error the *)
(* backend answers with, through validateApiResponse to the settlement of  *)
(* the method's promise.  A JavaScript value of a request or response is a *)
(* tagged tuple: <<"string", s>>, <<"number", n>>, <<"null">>,             *)
(* <<"undefined">>, <<"array", items>> and <<"object", fields>> with       *)
(* fields the sequence of <<key, value>> pairs in insertion order.         *)
(*                                                                         *)
(* Numbers.  A JavaScript number is modelled as an extended rational       *)
(* <<n, d>>: d > 0 and gcd(n, d) = 1 for a finite value, <<1, 0>> for      *)
(* Infinity, <<-1, 0>> for -Infinity and <<0, 0>> for NaN.  Finite         *)
(* arithmetic is exact: the rounding of IEEE-754 doubles is not modelled,  *)
(* the special values and their propagation are.                           *)
(***************************************************************************)
EXTENDS Integers, Sequences, FiniteSets, TLC

VARIABLES flightNumbers, throwType, config, defaultConfig, result, pc,
          frames, remembered, svc, requests, captured

vars == <<flightNumbers, throwType, config, defaultConfig, result, pc,
          frames, remembered, svc, requests, captured>>

\* the state of the service layer: the service call in progress, the
\* requests handed to apiRequest and the calls of captureError
serviceVars == <<svc, requests, captured>>

(***************************************************************************)
(* JavaScript numbers                                                      *)
(***************************************************************************)
NaN == <<0, 0>>

PosInf == <<1, 0>>

NegInf == <<-1, 0>>

\* undefined where a number is expected: the value of a missing object field
Undefined == <<>>

\* undefined where an object is expected: an omitted argument
Omitted == [omitted |-> TRUE]

\* null where an object is expected
Null == [null |-> TRUE]

Abs(i) == IF i < 0 THEN -i ELSE i

Sign(i) == IF i < 0 THEN -1 ELSE IF i > 0 THEN 1 ELSE 0

RECURSIVE Gcd(_, _)
Gcd(a, b) == IF b = 0 THEN a ELSE Gcd(b, a % b)

\* the number n/d (d # 0) in lowest terms with a positive denominator
Norm(n, d) ==
    LET g == Gcd(Abs(n), Abs(d))
        s == Sign(d)
    IN  <<s * (n \div g), s * (d \div g)>>

Num(i) == <<i, 1>>

IsNaN(x) == x = NaN

IsFinite(x) == x[2] > 0

\* mutant: a missing field defaults to 0
ToNumberOrZero(v) == IF v = Undefined THEN <<0, 1>> ELSE v

\* ToNumber: undefined converts to NaN, a number to itself
ToNumber(v) == IF v = Undefined THEN NaN ELSE v

\* unary minus
Neg(x) == <<-x[1], x[2]>>

\* x + y
Add(x, y) ==
    IF IsNaN(x) \/ IsNaN(y) THEN NaN
    ELSE IF ~IsFinite(x) /\ ~IsFinite(y) THEN (IF x = y THEN x ELSE NaN)
    ELSE IF ~IsFinite(x) THEN x
    ELSE IF ~IsFinite(y) THEN y
    ELSE LET g == Gcd(x[2], y[2])
             l == (x[2] \div g) * y[2]
         IN  Norm(x[1] * (l \div x[2]) + y[1] * (l \div y[2]), l)

\* x - y
Sub(x, y) == Add(x, Neg(y))

\* x * y
Mul(x, y) ==
    IF IsNaN(x) \/ IsNaN(y) THEN NaN
    ELSE IF ~IsFinite(x) \/ ~IsFinite(y)
         THEN <<Sign(x[1]) * Sign(y[1]), 0>>
    ELSE LET g1 == Gcd(Abs(x[1]), y[2])
             g2 == Gcd(Abs(y[1]), x[2])
         IN  <<(x[1] \div g1) * (y[1] \div g2), (x[2] \div g2) * (y[2] \div g1)>>

\* x / y
Div(x, y) ==
    IF IsNaN(x) \/ IsNaN(y) THEN NaN
    ELSE IF ~IsFinite(x) /\ ~IsFinite(y) THEN NaN
    ELSE IF ~IsFinite(x) THEN <<x[1] * (IF y[1] < 0 THEN -1 ELSE 1), 0>>
    ELSE IF ~IsFinite(y) THEN Num(0)
    ELSE IF y[1] = 0 THEN <<Sign(x[1]), 0>>
    ELSE Mul(x, Norm(y[2], y[1]))

\* x < y (false when either is NaN); finite values compare by the sign of x - y
Less(x, y) ==
    IF IsNaN(x) \/ IsNaN(y) THEN FALSE
    ELSE IF ~IsFinite(x) \/ ~IsFinite(y)
         THEN x # y /\ (x = NegInf \/ y = PosInf)
    ELSE Add(x, Neg(y))[1] < 0

\* Math.min(x, y)
\* mutant: Math.max in the place of Math.min
MathMax(x, y) ==
    IF IsNaN(x) \/ IsNaN(y) THEN NaN
    ELSE IF Less(x, y) THEN y ELSE x

MathMin(x, y) ==
    IF IsNaN(x) \/ IsNaN(y) THEN NaN
    ELSE IF Less(y, x) THEN y ELSE x

\* a decimal literal: Dec(16, 10) is 1.6
Dec(n, d) == Norm(n, d)

(***************************************************************************)
(* Types and constants of the module                                       *)
(***************************************************************************)
ThrowType == {"rhbh", "rhfh", "lhbh", "lhfh"}

ReleaseAngle == {"hyzer", "flat", "anhyzer"}

CanvasConfig(width, height, startX, startY, maxDistance) ==
    [width |-> width, height |-> height, startX |-> startX, startY |-> startY,
     maxDistance |-> maxDistance]

FlightNumbers(speed, glide, turn, fade) ==
    [speed |-> speed, glide |-> glide, turn |-> turn, fade |-> fade]

DEFAULT_CONFIG == CanvasConfig(Num(200), Num(300), Num(100), Num(280), Num(400))

(***************************************************************************)
(* The SVG path string                                                     *)
(*   `M ${startX} ${startY} C ${cp1X} ${cp1Y}, ${cp2X} ${cp2Y}, ${endX}    *)
(*    ${endY}`                                                             *)
(* as the sequence of its tokens.  A number token stands for the number it *)
(* prints: Number::toString gives distinct values distinct texts, so two   *)
(* path strings are equal exactly when their token sequences are.          *)
(***************************************************************************)
\* mutant: the end point is written before the control points
SvgPathEndFirst(startX, startY, cp1X, cp1Y, cp2X, cp2Y, endX, endY) ==
    <<"M", startX, startY, "C", endX, endY, cp1X, cp1Y, cp2X, cp2Y>>

SvgPath(startX, startY, cp1X, cp1Y, cp2X, cp2Y, endX, endY) ==
    <<"M", startX, startY, "C", cp1X, cp1Y, cp2X, cp2Y, endX, endY>>

\* the coordinates of a path, by token position
StartX(path) == path[2]

StartY(path) == path[3]

Cp1X(path) == path[5]

Cp1Y(path) == path[6]

Cp2X(path) == path[7]

Cp2Y(path) == path[8]

EndX(path) == path[9]

EndY(path) == path[10]

(***************************************************************************)
(* generatePath                                                            *)
(***************************************************************************)
\* mutant: the turn factors of hyzer and anhyzer exchanged
TurnFactorSwapped(releaseAngle) ==
    CASE releaseAngle = "hyzer" -> Dec(16, 10)
      [] releaseAngle = "anhyzer" -> Dec(5, 10)
      [] OTHER -> Num(1)

\* the factor the switch on releaseAngle applies to turnEffect
TurnFactor(releaseAngle) ==
    CASE releaseAngle = "hyzer" -> Dec(5, 10)
      [] releaseAngle = "anhyzer" -> Dec(16, 10)
      [] OTHER -> Num(1)

\* mutant: the fade factors of hyzer and anhyzer exchanged
FadeFactorSwapped(releaseAngle) ==
    CASE releaseAngle = "hyzer" -> Dec(6, 10)
      [] releaseAngle = "anhyzer" -> Dec(14, 10)
      [] OTHER -> Num(1)

\* the factor the switch on releaseAngle applies to fadeEffect
FadeFactor(releaseAngle) ==
    CASE releaseAngle = "hyzer" -> Dec(14, 10)
      [] releaseAngle = "anhyzer" -> Dec(6, 10)
      [] OTHER -> Num(1)

\* mutant: the mirror flag is ignored
NotMirrored(mirror, effect) == effect

\* if (mirror) { turnEffect = -turnEffect; fadeEffect = -fadeEffect; }
Mirrored(mirror, effect) == IF mirror THEN Neg(effect) ELSE effect

\* mutant: the estimate is not capped at maxDistance
EstimatedDistanceUncapped(speed, glide, maxDistance) ==
    Add(Add(Num(30), Mul(speed, Num(28))), Mul(glide, Num(5)))

\* mutant: the capped estimate wraps around at maxDistance instead of
\* stopping there (maxDistance > 0)
EstimatedDistanceWrapped(speed, glide, maxDistance) ==
    LET sum == Add(Add(Num(30), Mul(speed, Num(28))), Mul(glide, Num(5)))
    IN  IF Less(maxDistance, sum) /\ Less(Num(0), maxDistance)
        THEN Sub(sum, maxDistance)
        ELSE MathMin(sum, maxDistance)

\* const estimatedDistance = Math.min(baseDistance + glideBonus, maxDistance)
EstimatedDistance(speed, glide, maxDistance) ==
    LET baseDistance == Add(Num(30), Mul(speed, Num(28)))
        glideBonus == Mul(glide, Num(5))
    IN  MathMin(Add(baseDistance, glideBonus), maxDistance)

\* mutant: the 20 px top margin is not taken off the available height
FlightLengthNoMargin(speed, glide, startY, maxDistance) ==
    Mul(EstimatedDistance(speed, glide, maxDistance), Div(startY, maxDistance))

\* const flightLength = estimatedDistance * pixelsPerFoot
FlightLength(speed, glide, startY, maxDistance) ==
    LET availableHeight == Sub(startY, Num(20))
        pixelsPerFoot == Div(availableHeight, maxDistance)
    IN  Mul(EstimatedDistance(speed, glide, maxDistance), pixelsPerFoot)

\* mutant: control point 2 is moved with the fade instead of against it
generatePathFadeAdded(numbers, releaseAngle, mirror, cfg) ==
    LET speed == ToNumber(numbers.speed)
        glide == ToNumber(numbers.glide)
        turn == ToNumber(numbers.turn)
        fade == ToNumber(numbers.fade)
        startX == cfg.startX
        startY == cfg.startY
        maxDistance == cfg.maxDistance
        flightLength == FlightLength(speed, glide, startY, maxDistance)
        effectScale == Div(flightLength, Num(250))
        turnEffect ==
            Mirrored(mirror, Mul(Mul(Mul(turn, Num(10)), effectScale),
                                 TurnFactor(releaseAngle)))
        fadeEffect ==
            Mirrored(mirror, Mul(Mul(Mul(fade, Num(15)), effectScale),
                                 FadeFactor(releaseAngle)))
        arcHeight == Mul(Mul(glide, Num(6)), effectScale)
        endY == Sub(startY, flightLength)
        endX == Sub(startX, fadeEffect)
        cp1X == Add(startX, turnEffect)
        cp1Y == Sub(startY, Mul(flightLength, Dec(4, 10)))
        cp2X == Add(Add(startX, Mul(turnEffect, Dec(5, 10))),
                    Mul(fadeEffect, Dec(3, 10)))
        cp2Y == Add(endY, arcHeight)
    IN  SvgPath(startX, startY, cp1X, cp1Y, cp2X, cp2Y, endX, endY)

\* mutant: the arc height is negated with the turn and the fade when the
\* throw is mirrored
generatePathArcMirrored(numbers, releaseAngle, mirror, cfg) ==
    LET speed == ToNumber(numbers.speed)
        glide == ToNumber(numbers.glide)
        turn == ToNumber(numbers.turn)
        fade == ToNumber(numbers.fade)
        startX == cfg.startX
        startY == cfg.startY
        maxDistance == cfg.maxDistance
        flightLength == FlightLength(speed, glide, startY, maxDistance)
        effectScale == Div(flightLength, Num(250))
        turnEffect ==
            Mirrored(mirror, Mul(Mul(Mul(turn, Num(10)), effectScale),
                                 TurnFactor(releaseAngle)))
        fadeEffect ==
            Mirrored(mirror, Mul(Mul(Mul(fade, Num(15)), effectScale),
                                 FadeFactor(releaseAngle)))
        arcHeight == Mirrored(mirror, Mul(Mul(glide, Num(6)), effectScale))
        endY == Sub(startY, flightLength)
        endX == Sub(startX, fadeEffect)
        cp1X == Add(startX, turnEffect)
        cp1Y == Sub(startY, Mul(flightLength, Dec(4, 10)))
        cp2X == Sub(Add(startX, Mul(turnEffect, Dec(5, 10))),
                    Mul(fadeEffect, Dec(3, 10)))
        cp2Y == Add(endY, arcHeight)
    IN  SvgPath(startX, startY, cp1X, cp1Y, cp2X, cp2Y, endX, endY)

\* mutant: control point 1 lies at nine tenths of the flight length
generatePathLateControl(numbers, releaseAngle, mirror, cfg) ==
    LET speed == ToNumber(numbers.speed)
        glide == ToNumber(numbers.glide)
        turn == ToNumber(numbers.turn)
        fade == ToNumber(numbers.fade)
        startX == cfg.startX
        startY == cfg.startY
        maxDistance == cfg.maxDistance
        flightLength == FlightLength(speed, glide, startY, maxDistance)
        effectScale == Div(flightLength, Num(250))
        turnEffect ==
            Mirrored(mirror, Mul(Mul(Mul(turn, Num(10)), effectScale),
                                 TurnFactor(releaseAngle)))
        fadeEffect ==
            Mirrored(mirror, Mul(Mul(Mul(fade, Num(15)), effectScale),
                                 FadeFactor(releaseAngle)))
        arcHeight == Mul(Mul(glide, Num(6)), effectScale)
        endY == Sub(startY, flightLength)
        endX == Sub(startX, fadeEffect)
        cp1X == Add(startX, turnEffect)
        cp1Y == Sub(startY, Mul(flightLength, Dec(9, 10)))
        cp2X == Sub(Add(startX, Mul(turnEffect, Dec(5, 10))),
                    Mul(fadeEffect, Dec(3, 10)))
        cp2Y == Add(endY, arcHeight)
    IN  SvgPath(startX, startY, cp1X, cp1Y, cp2X, cp2Y, endX, endY)

\* mutant: the release angle scales the arc height as it scales the fade
generatePathAngledArc(numbers, releaseAngle, mirror, cfg) ==
    LET speed == ToNumber(numbers.speed)
        glide == ToNumber(numbers.glide)
        turn == ToNumber(numbers.turn)
        fade == ToNumber(numbers.fade)
        startX == cfg.startX
        startY == cfg.startY
        maxDistance == cfg.maxDistance
        flightLength == FlightLength(speed, glide, startY, maxDistance)
        effectScale == Div(flightLength, Num(250))
        turnEffect ==
            Mirrored(mirror, Mul(Mul(Mul(turn, Num(10)), effectScale),
                                 TurnFactor(releaseAngle)))
        fadeEffect ==
            Mirrored(mirror, Mul(Mul(Mul(fade, Num(15)), effectScale),
                                 FadeFactor(releaseAngle)))
        arcHeight == Mul(Mul(Mul(glide, Num(6)), effectScale), FadeFactor(releaseAngle))
        endY == Sub(startY, flightLength)
        endX == Sub(startX, fadeEffect)
        cp1X == Add(startX, turnEffect)
        cp1Y == Sub(startY, Mul(flightLength, Dec(4, 10)))
        cp2X == Sub(Add(startX, Mul(turnEffect, Dec(5, 10))),
                    Mul(fadeEffect, Dec(3, 10)))
        cp2Y == Add(endY, arcHeight)
    IN  SvgPath(startX, startY, cp1X, cp1Y, cp2X, cp2Y, endX, endY)

\* mutant: the throw starts at the horizontal centre of the canvas
generatePathCentred(numbers, releaseAngle, mirror, cfg) ==
    LET speed == ToNumber(numbers.speed)
        glide == ToNumber(numbers.glide)
        turn == ToNumber(numbers.turn)
        fade == ToNumber(numbers.fade)
        startX == Div(cfg.width, Num(2))
        startY == cfg.startY
        maxDistance == cfg.maxDistance
        flightLength == FlightLength(speed, glide, startY, maxDistance)
        effectScale == Div(flightLength, Num(250))
        turnEffect ==
            Mirrored(mirror, Mul(Mul(Mul(turn, Num(10)), effectScale),
                                 TurnFactor(releaseAngle)))
        fadeEffect ==
            Mirrored(mirror, Mul(Mul(Mul(fade, Num(15)), effectScale),
                                 FadeFactor(releaseAngle)))
        arcHeight == Mul(Mul(glide, Num(6)), effectScale)
        endY == Sub(startY, flightLength)
        endX == Sub(startX, fadeEffect)
        cp1X == Add(startX, turnEffect)
        cp1Y == Sub(startY, Mul(flightLength, Dec(4, 10)))
        cp2X == Sub(Add(startX, Mul(turnEffect, Dec(5, 10))),
                    Mul(fadeEffect, Dec(3, 10)))
        cp2Y == Add(endY, arcHeight)
    IN  SvgPath(startX, startY, cp1X, cp1Y, cp2X, cp2Y, endX, endY)

generatePath(numbers, releaseAngle, mirror, cfg) ==
    LET speed == ToNumber(numbers.speed)
        glide == ToNumber(numbers.glide)
        turn == ToNumber(numbers.turn)
        fade == ToNumber(numbers.fade)
        startX == cfg.startX
        startY == cfg.startY
        maxDistance == cfg.maxDistance
        flightLength == FlightLength(speed, glide, startY, maxDistance)
        effectScale == Div(flightLength, Num(250))
        turnEffect ==
            Mirrored(mirror, Mul(Mul(Mul(turn, Num(10)), effectScale),
                                 TurnFactor(releaseAngle)))
        fadeEffect ==
            Mirrored(mirror, Mul(Mul(Mul(fade, Num(15)), effectScale),
                                 FadeFactor(releaseAngle)))
        arcHeight == Mul(Mul(glide, Num(6)), effectScale)
        endY == Sub(startY, flightLength)
        endX == Sub(startX, fadeEffect)
        cp1X == Add(startX, turnEffect)
        cp1Y == Sub(startY, Mul(flightLength, Dec(4, 10)))
        cp2X == Sub(Add(startX, Mul(turnEffect, Dec(5, 10))),
                    Mul(fadeEffect, Dec(3, 10)))
        cp2Y == Add(endY, arcHeight)
    IN  SvgPath(startX, startY, cp1X, cp1Y, cp2X, cp2Y, endX, endY)

(***************************************************************************)
(* calculateFlightPath                                                     *)
(***************************************************************************)
\* mutant: only 'rhfh' is mirrored
ShouldMirrorRhfhOnly(type) == type = "rhfh"

\* const shouldMirror = throwType === 'rhfh' || throwType === 'lhbh'
\* mutant: only 'lhbh' is mirrored
ShouldMirrorLhbhOnly(type) == type = "lhbh"

ShouldMirror(type) == type = "rhfh" \/ type = "lhbh"

\* config: CanvasConfig = DEFAULT_CONFIG
\* mutant: the config parameter has no default value
ConfigAsPassed(cfg) == cfg

ConfigOrDefault(cfg) == IF cfg = Omitted THEN defaultConfig ELSE cfg

\* destructuring ({ speed, ... } = flightNumbers) throws a TypeError on a
\* value that is not an object
Destructurable(obj) == obj # Null /\ obj # Omitted

\* mutant: the entry point rejects a missing or non-finite flight number
calculateFlightPathValidating(numbers, type, cfg) ==
    LET shouldMirror == ShouldMirror(type)
        used == ConfigOrDefault(cfg)
    IN  IF ~Destructurable(numbers) \/ ~Destructurable(used)
        THEN [type |-> "throw", value |-> "TypeError"]
        ELSE IF \E k \in DOMAIN numbers : ~IsFinite(ToNumber(numbers[k]))
        THEN [type |-> "throw", value |-> "InvalidInputError"]
        ELSE [type |-> "normal",
              value |-> [hyzer |-> generatePath(numbers, "hyzer", shouldMirror, used),
                         flat |-> generatePath(numbers, "flat", shouldMirror, used),
                         anhyzer |-> generatePath(numbers, "anhyzer", shouldMirror, used)]]

\* the completion of a call: the FlightPaths object returned, or the error
\* thrown
calculateFlightPath(numbers, type, cfg) ==
    LET shouldMirror == ShouldMirror(type)
        used == ConfigOrDefault(cfg)
    IN  IF ~Destructurable(numbers) \/ ~Destructurable(used)
        THEN [type |-> "throw", value |-> "TypeError"]
        ELSE [type |-> "normal",
              value |-> [hyzer |-> generatePath(numbers, "hyzer", shouldMirror, used),
                         flat |-> generatePath(numbers, "flat", shouldMirror, used),
                         anhyzer |-> generatePath(numbers, "anhyzer", shouldMirror, used)]]

(***************************************************************************)
(* The caller                                                              *)
(***************************************************************************)
\* bounds of the speeds tried on the default canvas: every speed from
\* -SpeedBelow to MaxSpeed
MaxSpeed == 15

SpeedBelow == 2

\* glides, turns and fades tried with each of these speeds: the ends of the
\* typical ranges (glide 1..7, turn -5..1, fade 0..5) and values between
Glides == {0, 1, 4, 7}

Turns == {-5, -1, 0, 1}

Fades == {0, 1, 3, 5}

RangeNumbers ==
    {FlightNumbers(Num(s), Num(g), Num(t), Num(f)) :
        s \in (0 - SpeedBelow)..MaxSpeed, g \in Glides, t \in Turns, f \in Fades}

\* the discs of flightCalculator.test.ts: standard, understable, overstable,
\* putter, distance driver
TestDiscs ==
    {FlightNumbers(Num(12), Num(5), Num(-1), Num(3)),
     FlightNumbers(Num(9), Num(5), Num(-3), Num(1)),
     FlightNumbers(Num(10), Num(4), Num(0), Num(4)),
     FlightNumbers(Num(2), Num(3), Num(0), Num(1)),
     FlightNumbers(Num(14), Num(6), Num(-2), Num(3))}

\* flight numbers outside the typical ranges: an estimated distance of 0,
\* a negative one, a very large one, and a negative fade
ExtremeNumbers ==
    {FlightNumbers(Num(0), Num(-6), Num(-1), Num(2)),
     FlightNumbers(Num(-3), Num(0), Num(-1), Num(2)),
     FlightNumbers(Num(30), Num(20), Num(-8), Num(9)),
     FlightNumbers(Num(7), Num(5), Num(2), Num(-2))}

\* a disc that neither turns nor fades
StraightDiscs == {FlightNumbers(Num(7), Num(5), Num(0), Num(0))}

\* canvases other than the default one: a small one, one whose origin lies
\* on the top margin (startY = 20) and one with maxDistance = 0
SmallCanvas == CanvasConfig(Num(120), Num(160), Num(60), Num(150), Num(100))

FlatCanvas == CanvasConfig(Num(200), Num(300), Num(100), Num(20), Num(400))

ZeroDistanceCanvas == CanvasConfig(Num(200), Num(300), Num(100), Num(280), Num(0))

Configs == {Omitted, DEFAULT_CONFIG, SmallCanvas, FlatCanvas, ZeroDistanceCanvas}

\* the calls tried: every flight numbers value of the ranges on the default
\* canvas, and the test discs, the extreme values and the straight disc on
\* every canvas
Inputs ==
    (RangeNumbers \X {DEFAULT_CONFIG}) \cup ((TestDiscs \cup ExtremeNumbers \cup StraightDiscs) \X Configs)

\* values a flight number field can hold at run time: finite numbers (a
\* negative one, an ordinary one), the non-finite numbers, and undefined for
\* a missing field
FieldValues == {Num(-1), Num(3), NaN, PosInf, NegInf, Undefined}

\* calls with arbitrary field values on several canvases, and calls whose
\* flightNumbers or config is null
AnyInputs ==
    ([speed : FieldValues, glide : FieldValues, turn : FieldValues, fade : FieldValues]
        \X {Omitted, SmallCanvas, FlatCanvas, ZeroDistanceCanvas})
    \cup ({Null} \X {Omitted, DEFAULT_CONFIG})
    \cup (TestDiscs \X {Null})

NoResult == [type |-> "none", value |-> "none"]

\* the callers whose calls may be in progress at the same time
Callers == {"a", "b"}

\* the activation of calculateFlightPath of a caller with no call in
\* progress
IdleFrame ==
    [at |-> "idle", args |-> <<>>, mirror |-> FALSE, paths |-> <<>>]

\* no call remembered yet
NoCall == [args |-> <<>>, result |-> NoResult, interposed |-> FALSE]

\* no service method has been called
NoServiceCall ==
    /\ svc = [at |-> "idle"]
    /\ requests = <<>>
    /\ captured = <<>>

TypeOK ==
    /\ throwType \in ThrowType
    /\ pc \in {"idle", "called", "done"}
    /\ defaultConfig = DEFAULT_CONFIG
    /\ DOMAIN frames = Callers
    /\ \A p \in Callers :
          /\ frames[p].at \in {"idle", "hyzer", "flat", "anhyzer", "done"}
          /\ frames[p].mirror \in BOOLEAN
          /\ Len(frames[p].paths) \in 0..3
    /\ remembered.interposed \in BOOLEAN
    /\ svc.at \in {"idle", "awaiting", "validating", "logging", "throwing",
                 "settled"}
    /\ Len(requests) \in 0..1
    /\ Len(captured) \in 0..1

Init ==
    /\ \E call \in Inputs : flightNumbers = call[1] /\ config = call[2]
    /\ throwType \in ThrowType
    /\ defaultConfig = DEFAULT_CONFIG
    /\ result = NoResult
    /\ pc = "called"
    /\ frames = [p \in Callers |-> IdleFrame]
    /\ remembered = NoCall
    /\ NoServiceCall

\* mutant: a call with the default canvas keeps the capped distance in
\* DEFAULT_CONFIG.maxDistance
CallCachingDistance ==
    /\ pc = "called"
    /\ result' = calculateFlightPath(flightNumbers, throwType, config)
    /\ pc' = "done"
    /\ defaultConfig' =
          IF config = Omitted /\ Destructurable(flightNumbers)
          THEN [defaultConfig EXCEPT !.maxDistance =
                   EstimatedDistance(ToNumber(flightNumbers.speed),
                                     ToNumber(flightNumbers.glide), @)]
          ELSE defaultConfig
    /\ UNCHANGED <<flightNumbers, throwType, config, frames, remembered>>
    /\ UNCHANGED serviceVars

\* the call runs to completion: it reads its arguments and the module's
\* DEFAULT_CONFIG and writes neither
Call ==
    /\ pc = "called"
    /\ result' = calculateFlightPath(flightNumbers, throwType, config)
    /\ pc' = "done"
    /\ UNCHANGED <<flightNumbers, throwType, config, defaultConfig>>
    /\ UNCHANGED <<frames, remembered>>
    /\ UNCHANGED serviceVars

Next == Call

Spec == Init /\ [][Next]_vars

\* the same caller, started on arbitrary (non-finite, missing, null) input
InitAnyInput ==
    /\ \E call \in AnyInputs : flightNumbers = call[1] /\ config = call[2]
    /\ throwType \in ThrowType
    /\ defaultConfig = DEFAULT_CONFIG
    /\ result = NoResult
    /\ pc = "called"
    /\ frames = [p \in Callers |-> IdleFrame]
    /\ remembered = NoCall
    /\ NoServiceCall

SpecAnyInput == InitAnyInput /\ [][Next]_vars

(***************************************************************************)
(* A caller that calls repeatedly                                          *)
(***************************************************************************)
\* the canvases of the repeated calls: none, the default one spelled out,
\* and another one
RepeatConfigs == {Omitted, DEFAULT_CONFIG, SmallCanvas}

\* the arguments of the caller's current call
CurrentArgs == <<flightNumbers, throwType, config>>

\* a call is being remembered
Remembering == remembered.args # <<>>

\* the caller makes another call, with any disc, throw type and canvas; the
\* observer notes when the call before it differed from the remembered one
Again ==
    /\ pc = "done"
    /\ flightNumbers' \in TestDiscs
    /\ throwType' \in ThrowType
    /\ config' \in RepeatConfigs
    /\ result' = NoResult
    /\ pc' = "called"
    /\ remembered' = IF Remembering /\ remembered.args # CurrentArgs
                     THEN [remembered EXCEPT !.interposed = TRUE]
                     ELSE remembered
    /\ UNCHANGED <<defaultConfig, frames>>
    /\ UNCHANGED serviceVars

\* the observer keeps the arguments and the output of a call that returned
Remember ==
    /\ pc = "done"
    /\ ~Remembering
    /\ remembered' = [args |-> CurrentArgs, result |-> result,
                      interposed |-> FALSE]
    /\ UNCHANGED <<flightNumbers, throwType, config, defaultConfig, result,
                   pc, frames>>
    /\ UNCHANGED serviceVars

\* the caller's first call; no call is remembered yet
InitRepeat ==
    /\ flightNumbers \in TestDiscs
    /\ throwType \in ThrowType
    /\ config \in RepeatConfigs
    /\ defaultConfig = DEFAULT_CONFIG
    /\ result = NoResult
    /\ pc = "called"
    /\ frames = [p \in Callers |-> IdleFrame]
    /\ remembered = NoCall
    /\ NoServiceCall

NextRepeat == Call \/ Again \/ Remember

SpecRepeat == InitRepeat /\ [][NextRepeat]_vars

(***************************************************************************)
(* Calls in progress at the same time                                      *)
(***************************************************************************)
\* the throw types of these calls: one that is not mirrored, one that is
CallTypes == {"rhbh", "rhfh"}

\* the discs of these calls
CallDiscs ==
    {FlightNumbers(Num(12), Num(5), Num(-1), Num(3)),
     FlightNumbers(Num(2), Num(3), Num(0), Num(1))}

\* the properties of the returned object literal are evaluated in order:
\* hyzer, flat, anhyzer
AngleAt(i) == <<"hyzer", "flat", "anhyzer">>[i]

AfterAngle(at) ==
    CASE at = "hyzer" -> "flat"
      [] at = "flat" -> "anhyzer"
      [] at = "anhyzer" -> "done"

\* the canvas object the config parameter of an activation is bound to:
\* the argument, or DEFAULT_CONFIG itself when the argument was omitted
BoundConfig(frame) ==
    IF frame.args[3] = Omitted THEN defaultConfig ELSE config

\* mutant: shouldMirror is a variable of the module, shared by every
\* activation, instead of a const of the call
EnterSharedMirror(p, type, passed) ==
    /\ frames[p].at = "idle"
    /\ frames' = [q \in Callers |->
          IF q = p
          THEN [at |-> "hyzer",
                args |-> <<flightNumbers, type,
                           IF passed THEN config ELSE Omitted>>,
                mirror |-> ShouldMirror(type),
                paths |-> <<>>]
          ELSE [frames[q] EXCEPT !.mirror = ShouldMirror(type)]]
    /\ UNCHANGED <<flightNumbers, throwType, config, defaultConfig, result,
                   pc, remembered>>
    /\ UNCHANGED serviceVars

\* caller p calls calculateFlightPath on the shared flightNumbers object,
\* passing the shared canvas object or no canvas: the parameters are bound
\* and shouldMirror is computed
Enter(p, type, passed) ==
    /\ frames[p].at = "idle"
    /\ frames' = [frames EXCEPT ![p] =
          [at |-> "hyzer",
           args |-> <<flightNumbers, type, IF passed THEN config ELSE Omitted>>,
           mirror |-> ShouldMirror(type),
           paths |-> <<>>]]
    /\ UNCHANGED <<flightNumbers, throwType, config, defaultConfig, result,
                   pc, remembered>>
    /\ UNCHANGED serviceVars

\* the activation of p evaluates its next generatePath call; generatePath
\* reads the two objects into locals and assigns to neither
Generate(p) ==
    /\ frames[p].at \in ReleaseAngle
    /\ frames' = [frames EXCEPT
          ![p].paths = Append(@, generatePath(flightNumbers, frames[p].at,
                                              frames[p].mirror,
                                              BoundConfig(frames[p]))),
          ![p].at = AfterAngle(@)]
    /\ UNCHANGED <<flightNumbers, throwType, config, defaultConfig, result,
                   pc, remembered>>
    /\ UNCHANGED serviceVars

\* caller p drops the object its call returned
Release(p) ==
    /\ frames[p].at = "done"
    /\ frames' = [frames EXCEPT ![p] = IdleFrame]
    /\ UNCHANGED <<flightNumbers, throwType, config, defaultConfig, result,
                   pc, remembered>>
    /\ UNCHANGED serviceVars

InitCalls ==
    /\ flightNumbers \in CallDiscs
    /\ throwType \in CallTypes
    /\ config = SmallCanvas
    /\ defaultConfig = DEFAULT_CONFIG
    /\ result = NoResult
    /\ pc = "called"
    /\ frames = [p \in Callers |-> IdleFrame]
    /\ remembered = NoCall
    /\ NoServiceCall

NextCalls ==
    \/ Call
    \/ \E p \in Callers :
          \/ \E type \in CallTypes, passed \in BOOLEAN : Enter(p, type, passed)
          \/ Generate(p)
          \/ Release(p)

SpecCalls == InitCalls /\ [][NextCalls]_vars

(***************************************************************************)
(* JavaScript values of requests and responses                             *)
(***************************************************************************)
JsString(s) == <<"string", s>>

JsNumber(n) == <<"number", n>>

JsNull == <<"null">>

JsUndefined == <<"undefined">>

JsArray(items) == <<"array", items>>

JsObject(fields) == <<"object", fields>>

\* typeof value, with zod's finer names for null and arrays
ParsedType(value) == value[1]

\* typeof value
TypeOf(value) ==
    IF value[1] \in {"null", "array"} THEN "object" ELSE value[1]

\* value[key] of an object: undefined when the key is missing
GetField(fields, key) ==
    IF \E i \in 1..Len(fields) : fields[i][1] = key
    THEN fields[CHOOSE i \in 1..Len(fields) : fields[i][1] = key][2]
    ELSE JsUndefined

\* Object.keys(value) of an object or an array: the keys in insertion
\* order, the indices of an array as strings
IndexName(i) == <<"0", "1", "2", "3">>[i]

ObjectKeys(value) ==
    IF value[1] = "array"
    THEN [i \in 1..Len(value[2]) |-> IndexName(i)]
    ELSE [i \in 1..Len(value[2]) |-> value[2][i][1]]

\* the truthiness of a value in the condition of an if
Truthy(value) ==
    CASE value[1] \in {"null", "undefined"} -> FALSE
      [] value[1] = "string" -> value[2] # ""
      [] value[1] = "number" -> value[2] # 0
      [] OTHER -> TRUE

(***************************************************************************)
(* zod schemas (services/apiValidation)                                    *)
(***************************************************************************)
ZString == [kind |-> "string"]

ZNumber == [kind |-> "number"]

ZOptional(inner) == [kind |-> "optional", inner |-> inner]

ZNullable(inner) == [kind |-> "nullable", inner |-> inner]

ZObject(shape) == [kind |-> "object", shape |-> shape]

ZArray(element) == [kind |-> "array", element |-> element]

locationSchema ==
    ZObject(<< <<"latitude", ZNumber>>, <<"longitude", ZNumber>> >>)

discSchema ==
    ZObject(<< <<"id", ZString>>,
               <<"name", ZString>>,
               <<"brand", ZOptional(ZString)>>,
               <<"weight", ZOptional(ZNumber)>>,
               <<"color", ZOptional(ZString)>>,
               <<"photo_url", ZOptional(ZString)>>,
               <<"qr_code_id", ZOptional(ZNullable(ZString))>>,
               <<"owner_id", ZString>>,
               <<"created_at", ZString>>,
               <<"updated_at", ZString>> >>)

discArraySchema == ZArray(discSchema)

recoveryEventSchema ==
    ZObject(<< <<"id", ZString>>,
               <<"disc_id", ZString>>,
               <<"status", ZString>>,
               <<"finder_id", ZOptional(ZString)>>,
               <<"owner_id", ZString>>,
               <<"location", ZOptional(locationSchema)>>,
               <<"scheduled_time", ZOptional(ZString)>>,
               <<"message", ZOptional(ZString)>>,
               <<"created_at", ZString>>,
               <<"updated_at", ZString>> >>)

recoveryEventArraySchema == ZArray(recoveryEventSchema)

recoveryMessageSchema ==
    ZObject(<< <<"id", ZString>>,
               <<"content", ZString>>,
               <<"sender_id", ZString>>,
               <<"created_at", ZString>> >>)

recoveryMessageArraySchema == ZArray(recoveryMessageSchema)

\* the issue zod reports for a value of the wrong type
InvalidType(expected, value, path) ==
    [code |-> "invalid_type", expected |-> expected,
     received |-> ParsedType(value), path |-> path,
     message |-> IF ParsedType(value) = "undefined" THEN "Required"
                 ELSE "Expected " \o expected \o ", received " \o ParsedType(value)]

\* the concatenation of the issue lists of the parts of a value
RECURSIVE FlattenIssues(_)
FlattenIssues(parts) ==
    IF parts = <<>> THEN <<>>
    ELSE parts[1].issues \o FlattenIssues(Tail(parts))

\* the fields of a parsed object: the keys of the shape that the input has
\* or that parsed to a value, unknown keys stripped
RECURSIVE ParsedFields(_, _, _)
ParsedFields(shape, parts, input) ==
    IF shape = <<>> THEN <<>>
    ELSE LET key == shape[1][1]
             rest == ParsedFields(Tail(shape), Tail(parts), input)
         IN  IF parts[1].value # JsUndefined
                \/ \E i \in 1..Len(input) : input[i][1] = key
             THEN << <<key, parts[1].value>> >> \o rest
             ELSE rest

\* schema._parse: the issues of a value against a schema and the parsed
\* value
RECURSIVE ZodParse(_, _, _)
ZodParse(schema, value, path) ==
    CASE schema.kind \in {"string", "number"} ->
            IF ParsedType(value) = schema.kind
            THEN [issues |-> <<>>, value |-> value]
            ELSE [issues |-> <<InvalidType(schema.kind, value, path)>>,
                  value |-> value]
      [] schema.kind = "optional" ->
            IF ParsedType(value) = "undefined"
            THEN [issues |-> <<>>, value |-> value]
            ELSE ZodParse(schema.inner, value, path)
      [] schema.kind = "nullable" ->
            IF ParsedType(value) = "null"
            THEN [issues |-> <<>>, value |-> value]
            ELSE ZodParse(schema.inner, value, path)
      [] schema.kind = "array" ->
            IF ParsedType(value) # "array"
            THEN [issues |-> <<InvalidType("array", value, path)>>,
                  value |-> value]
            ELSE LET parts == [i \in 1..Len(value[2]) |->
                                  ZodParse(schema.element, value[2][i],
                                           Append(path, JsNumber(i - 1)))]
                 IN  [issues |-> FlattenIssues(parts),
                      value |-> JsArray([i \in 1..Len(parts) |-> parts[i].value])]
      [] schema.kind = "object" ->
            IF ParsedType(value) # "object"
            THEN [issues |-> <<InvalidType("object", value, path)>>,
                  value |-> value]
            ELSE LET parts == [i \in 1..Len(schema.shape) |->
                                  ZodParse(schema.shape[i][2],
                                           GetField(value[2], schema.shape[i][1]),
                                           Append(path, JsString(schema.shape[i][1])))]
                 IN  [issues |-> FlattenIssues(parts),
                      value |-> JsObject(ParsedFields(schema.shape, parts, value[2]))]

\* schema.safeParse(data)
SafeParse(schema, data) ==
    LET parsed == ZodParse(schema, data, <<>>)
    IN  IF parsed.issues = <<>>
        THEN [success |-> TRUE, data |-> parsed.value, issues |-> <<>>]
        ELSE [success |-> FALSE, data |-> JsUndefined, issues |-> parsed.issues]

(***************************************************************************)
(* Errors (services/ApiError, ValidationError of services/apiValidation)   *)
(***************************************************************************)
\* an error object: its class, and the properties the services read
ErrorObject(class, code, message) ==
    [class |-> class, code |-> code, message |-> message,
     operation |-> "", issues |-> <<>>, rawData |-> JsUndefined]

NoError == ErrorObject("none", "", "")

\* new ApiError(message, { code })
ApiError(message, code) == ErrorObject("ApiError", code, message)

\* new ValidationError(message, operation, issues, rawData)
ValidationError(message, operation, issues, rawData) ==
    [class |-> "ValidationError", code |-> "", message |-> message,
     operation |-> operation, issues |-> issues, rawData |-> rawData]

\* ValidationError.toJSON()
toJSON(error) ==
    [name |-> error.class, message |-> error.message,
     operation |-> error.operation, issues |-> error.issues]

\* isValidationError(error)
isValidationError(error) == error.class = "ValidationError"

\* isApiError(error): the type guard of services/ApiError
isApiError(error) == error.class = "ApiError"

(***************************************************************************)
(* discService and recoveryService                                         *)
(***************************************************************************)
DiscMethods ==
    {"discService.getAll", "discService.getById", "discService.create",
     "discService.update", "discService.delete", "discService.linkQrCode",
     "discService.unlinkQrCode", "discService.uploadPhoto"}

RecoveryMethods ==
    {"recoveryService.getDetails", "recoveryService.getActiveEvents",
     "recoveryService.reportFound", "recoveryService.proposeMeetup",
     "recoveryService.acceptMeetup", "recoveryService.declineMeetup",
     "recoveryService.completeRecovery", "recoveryService.cancelRecovery",
     "recoveryService.sendMessage", "recoveryService.getMessages"}

Methods == DiscMethods \cup RecoveryMethods

\* the methods that call apiRequest themselves and validate nothing
Unvalidated == {"discService.delete"}

\* the methods that catch what apiRequestValidated throws
Catching == {"discService.getById", "recoveryService.getDetails"}

\* the schema a method hands to apiRequestValidated
SchemaOf(method) ==
    CASE method = "discService.getAll" -> discArraySchema
      [] method \in DiscMethods -> discSchema
      [] method = "recoveryService.getActiveEvents" -> recoveryEventArraySchema
      [] method = "recoveryService.sendMessage" -> recoveryMessageSchema
      [] method = "recoveryService.getMessages" -> recoveryMessageArraySchema
      [] OTHER -> recoveryEventSchema

\* options.method of a method's request
HttpMethod(method) ==
    CASE method \in {"discService.getAll", "discService.getById",
                     "recoveryService.getDetails",
                     "recoveryService.getActiveEvents",
                     "recoveryService.getMessages"} -> "GET"
      [] method = "discService.update" -> "PATCH"
      [] method \in {"discService.delete", "discService.unlinkQrCode"} -> "DELETE"
      [] OTHER -> "POST"

\* options.operation of a method's request
OperationOf(method) ==
    CASE method = "discService.getAll" -> "get-discs"
      [] method = "discService.getById" -> "get-disc"
      [] method = "discService.create" -> "create-disc"
      [] method = "discService.update" -> "update-disc"
      [] method = "discService.delete" -> "delete-disc"
      [] method = "discService.linkQrCode" -> "link-qr-code"
      [] method = "discService.unlinkQrCode" -> "unlink-qr-code"
      [] method = "discService.uploadPhoto" -> "upload-disc-photo"
      [] method = "recoveryService.getDetails" -> "get-recovery-details"
      [] method = "recoveryService.getActiveEvents" -> "get-active-recovery-events"
      [] method = "recoveryService.reportFound" -> "report-disc-found"
      [] method = "recoveryService.proposeMeetup" -> "propose-meetup"
      [] method = "recoveryService.acceptMeetup" -> "accept-meetup"
      [] method = "recoveryService.declineMeetup" -> "decline-meetup"
      [] method = "recoveryService.completeRecovery" -> "complete-recovery"
      [] method = "recoveryService.cancelRecovery" -> "cancel-recovery"
      [] method = "recoveryService.sendMessage" -> "send-recovery-message"
      [] method = "recoveryService.getMessages" -> "get-recovery-messages"

\* the endpoint of a method's request; first is the method's first argument
EndpointOf(method, first) ==
    CASE method \in {"discService.getAll", "discService.create"} ->
            "/functions/v1/discs"
      [] method \in {"discService.getById", "discService.update",
                     "discService.delete"} ->
            "/functions/v1/discs/" \o first[2]
      [] method \in {"discService.linkQrCode", "discService.unlinkQrCode"} ->
            "/functions/v1/discs/" \o first[2] \o "/qr"
      [] method = "discService.uploadPhoto" ->
            "/functions/v1/discs/" \o first[2] \o "/photo"
      [] method = "recoveryService.getDetails" ->
            "/functions/v1/recovery/" \o first[2]
      [] method = "recoveryService.getActiveEvents" ->
            "/functions/v1/recovery/active"
      [] method = "recoveryService.reportFound" ->
            "/functions/v1/recovery/report"
      [] method = "recoveryService.proposeMeetup" ->
            "/functions/v1/recovery/" \o first[2] \o "/meetup"
      [] method = "recoveryService.acceptMeetup" ->
            "/functions/v1/recovery/" \o first[2] \o "/accept"
      [] method = "recoveryService.declineMeetup" ->
            "/functions/v1/recovery/" \o first[2] \o "/decline"
      [] method = "recoveryService.completeRecovery" ->
            "/functions/v1/recovery/" \o first[2] \o "/complete"
      [] method = "recoveryService.cancelRecovery" ->
            "/functions/v1/recovery/" \o first[2] \o "/cancel"
      [] method \in {"recoveryService.sendMessage",
                     "recoveryService.getMessages"} ->
            "/functions/v1/recovery/" \o first[2] \o "/messages"

\* body.reason set whenever a reason is passed, the empty string included
ReasonBodyDefined(reason) ==
    IF reason # JsUndefined THEN JsObject(<< <<"reason", reason>> >>)
    ELSE JsObject(<<>>)

\* const body = {}; if (reason) body.reason = reason
ReasonBody(reason) ==
    IF Truthy(reason) THEN JsObject(<< <<"reason", reason>> >>)
    ELSE JsObject(<<>>)

\* const body = { qr_code_id }; if (location) body.location = location
ReportBody(qrCodeId, location) ==
    IF Truthy(location)
    THEN JsObject(<< <<"qr_code_id", qrCodeId>>, <<"location", location>> >>)
    ELSE JsObject(<< <<"qr_code_id", qrCodeId>> >>)

\* options.body of a method's request: undefined when the options have none
BodyOf(method, first, second) ==
    CASE method = "discService.create" -> first
      [] method \in {"discService.update", "discService.uploadPhoto",
                     "recoveryService.proposeMeetup"} -> second
      [] method = "discService.linkQrCode" ->
            JsObject(<< <<"qr_code_id", second>> >>)
      [] method = "recoveryService.reportFound" -> ReportBody(first, second)
      [] method \in {"recoveryService.declineMeetup",
                     "recoveryService.cancelRecovery"} -> ReasonBody(second)
      [] method = "recoveryService.sendMessage" ->
            JsObject(<< <<"content", second>> >>)
      [] OTHER -> JsUndefined

\* the request a method hands to apiRequest
RequestOf(method, first, second) ==
    [endpoint |-> EndpointOf(method, first),
     method |-> HttpMethod(method),
     body |-> BodyOf(method, first, second),
     operation |-> OperationOf(method)]

(***************************************************************************)
(* A call of a service method                                              *)
(*                                                                         *)
(* apiRequest (services/baseService) and captureError (lib/sentry) are the *)
(* environment of the services: apiRequest settles with any response or    *)
(* any error, captureError records what it is handed and returns.          *)
(***************************************************************************)
\* catch (error) of getById and getDetails, turning every ApiError into null
CatchAnyApiError(error) ==
    IF isApiError(error)
    THEN [outcome |-> "resolved", value |-> JsNull, error |-> NoError]
    ELSE [outcome |-> "rejected", value |-> JsUndefined, error |-> error]

\* catch (error) of getById and getDetails
CatchNotFound(error) ==
    IF isApiError(error) /\ error.code = "NOT_FOUND"
    THEN [outcome |-> "resolved", value |-> JsNull, error |-> NoError]
    ELSE [outcome |-> "rejected", value |-> JsUndefined, error |-> error]

\* mutant: every method catches as getById does
SettledCatching(method, error) == CatchNotFound(error)

\* how a method settles when apiRequestValidated throws
Settled(method, error) ==
    IF method \in Catching
    THEN CatchNotFound(error)
    ELSE [outcome |-> "rejected", value |-> JsUndefined, error |-> error]

\* responseShape of the context handed to captureError
ResponseShape(data) ==
    IF data # JsNull /\ TypeOf(data) = "object"
    THEN JsArray([i \in 1..Len(data[2]) |-> JsString(ObjectKeys(data)[i])])
    ELSE JsString(TypeOf(data))

\* the ids, codes and texts the callers pass
DiscId == JsString("disc-1")

EventId == JsString("event-1")

QrCodeId == JsString("qr-123")

SomeLocation ==
    JsObject(<< <<"latitude", JsNumber(40)>>, <<"longitude", JsNumber(-74)>> >>)

Reasons == {JsUndefined, JsString(""), JsString("Changed my mind")}

\* the arguments a caller may pass to a method: <<first, second>>
ArgumentsOf(method) ==
    CASE method \in {"discService.getAll", "recoveryService.getActiveEvents"} ->
            {<<JsUndefined, JsUndefined>>}
      [] method \in {"discService.getById", "discService.delete",
                     "discService.unlinkQrCode"} ->
            {<<DiscId, JsUndefined>>}
      [] method = "discService.create" ->
            {<<JsObject(<< <<"name", JsString("Destroyer")>> >>), JsUndefined>>}
      [] method = "discService.update" ->
            {<<DiscId, JsObject(<< <<"color", JsString("red")>> >>)>>}
      [] method = "discService.linkQrCode" -> {<<DiscId, QrCodeId>>}
      [] method = "discService.uploadPhoto" ->
            {<<DiscId, JsObject(<< <<"uri", JsString("file://photo.jpg")>>,
                                   <<"type", JsString("image/jpeg")>> >>)>>}
      [] method = "recoveryService.reportFound" ->
            {<<QrCodeId, JsUndefined>>, <<QrCodeId, SomeLocation>>}
      [] method = "recoveryService.proposeMeetup" ->
            {<<EventId, JsObject(<< <<"location", SomeLocation>>,
                                    <<"scheduled_time", JsString("2024-01-20T15:00:00Z")>> >>)>>}
      [] method \in {"recoveryService.declineMeetup",
                     "recoveryService.cancelRecovery"} ->
            {<<EventId, reason>> : reason \in Reasons}
      [] method = "recoveryService.sendMessage" ->
            {<<EventId, JsString("On my way")>>}
      [] OTHER -> {<<EventId, JsUndefined>>}

\* responses of the server
ValidDisc ==
    JsObject(<< <<"id", JsString("disc-1")>>,
                <<"name", JsString("Destroyer")>>,
                <<"owner_id", JsString("user-1")>>,
                <<"created_at", JsString("2024-01-01")>>,
                <<"updated_at", JsString("2024-01-02")>> >>)

\* a disc with optional fields, a null qr code and a key the schema does
\* not know
LongDisc ==
    JsObject(ValidDisc[2] \o << <<"weight", JsNumber(175)>>,
                                <<"qr_code_id", JsNull>>,
                                <<"owner_email", JsString("ann@example.com")>> >>)

DiscWithoutName ==
    JsObject(<< <<"id", JsString("disc-2")>>,
                <<"owner_id", JsString("user-1")>>,
                <<"owner_email", JsString("ann@example.com")>>,
                <<"created_at", JsString("2024-01-01")>>,
                <<"updated_at", JsString("2024-01-02")>> >>)

DiscWithTextWeight ==
    JsObject(ValidDisc[2] \o << <<"weight", JsString("175g")>> >>)

ValidEvent ==
    JsObject(<< <<"id", JsString("event-1")>>,
                <<"disc_id", JsString("disc-1")>>,
                <<"status", JsString("found")>>,
                <<"owner_id", JsString("user-1")>>,
                <<"created_at", JsString("2024-01-01")>>,
                <<"updated_at", JsString("2024-01-02")>> >>)

EventWithLocation ==
    JsObject(ValidEvent[2] \o << <<"location", SomeLocation>> >>)

EventWithTextLatitude ==
    JsObject(ValidEvent[2] \o
             << <<"location",
                  JsObject(<< <<"latitude", JsString("40.7")>>,
                              <<"longitude", JsNumber(-74)>> >>)>> >>)

ValidMessage ==
    JsObject(<< <<"id", JsString("msg-1")>>,
                <<"content", JsString("On my way")>>,
                <<"sender_id", JsString("user-2")>>,
                <<"created_at", JsString("2024-01-03")>> >>)

Responses ==
    {ValidDisc, LongDisc, DiscWithoutName, DiscWithTextWeight,
     ValidEvent, EventWithLocation, EventWithTextLatitude, ValidMessage,
     JsArray(<<>>), JsArray(<<ValidDisc, LongDisc>>),
     JsArray(<<ValidDisc, DiscWithoutName>>), JsArray(<<ValidEvent>>),
     JsArray(<<ValidMessage>>),
     JsNull, JsUndefined, JsString("Internal Server Error")}

\* what apiRequest may reject with
RequestErrors ==
    {ApiError("Not found", "NOT_FOUND"),
     ApiError("Unauthorized", "AUTH"),
     ApiError("Server error", "API"),
     ErrorObject("Error", "", "Network request failed"),
     ErrorObject("Error", "NOT_FOUND", "ENOENT"),
     ErrorObject("TypeError", "", "Cannot read properties of undefined")}

\* the variables of the flight calculator
flightVars ==
    <<flightNumbers, throwType, config, defaultConfig, result, pc, frames,
      remembered>>

\* the request of the call in progress
CurrentRequest == requests[Len(requests)]

\* a caller calls a service method: the method builds its request and hands
\* it to apiRequest
Invoke(method, first, second) ==
    /\ svc.at = "idle"
    /\ svc' = [at |-> "awaiting", method |-> method,
               first |-> first, second |-> second,
               responded |-> "no", response |-> JsUndefined,
               failure |-> NoError, validated |-> FALSE, thrown |-> NoError,
               outcome |-> "pending", value |-> JsUndefined,
               error |-> NoError]
    /\ requests' = Append(requests, RequestOf(method, first, second))
    /\ UNCHANGED <<captured, flightVars>>

\* mutant: the method resolves with whatever apiRequest resolved with
ResolveUnvalidated(data) ==
    /\ svc.at = "awaiting"
    /\ svc' = [svc EXCEPT !.at = "settled", !.responded = "resolved",
                          !.response = data, !.outcome = "resolved",
                          !.value = data]
    /\ UNCHANGED <<requests, captured, flightVars>>

\* apiRequest resolves with the response: discService.delete returns,
\* every other method goes on to validateApiResponse
Resolve(data) ==
    /\ svc.at = "awaiting"
    /\ svc' = IF svc.method \in Unvalidated
              THEN [svc EXCEPT !.at = "settled", !.responded = "resolved",
                               !.response = data, !.outcome = "resolved",
                               !.value = JsUndefined]
              ELSE [svc EXCEPT !.at = "validating", !.responded = "resolved",
                               !.response = data]
    /\ UNCHANGED <<requests, captured, flightVars>>

\* apiRequest rejects: the error leaves apiRequestValidated and reaches the
\* method
Reject(error) ==
    /\ svc.at = "awaiting"
    /\ LET end == Settled(svc.method, error)
       IN  svc' = [svc EXCEPT !.at = "settled", !.responded = "rejected",
                              !.failure = error, !.outcome = end.outcome,
                              !.value = end.value, !.error = end.error]
    /\ UNCHANGED <<requests, captured, flightVars>>

\* validateApiResponse up to the call of captureError: the parsed data is
\* returned, or the ValidationError is built
Validate ==
    /\ svc.at = "validating"
    /\ LET parsed == SafeParse(SchemaOf(svc.method), svc.response)
           operation == CurrentRequest.operation
       IN  svc' = IF parsed.success
                  THEN [svc EXCEPT !.at = "settled", !.validated = TRUE,
                                   !.outcome = "resolved",
                                   !.value = parsed.data]
                  ELSE [svc EXCEPT !.at = "logging", !.validated = TRUE,
                                   !.thrown = ValidationError(
                                       "API response validation failed for operation: "
                                           \o operation,
                                       operation, parsed.issues, svc.response)]
    /\ UNCHANGED <<requests, captured, flightVars>>

\* mutant: the ValidationError is thrown without a call of captureError
LogNothing ==
    /\ svc.at = "logging"
    /\ svc' = [svc EXCEPT !.at = "throwing"]
    /\ UNCHANGED <<requests, captured, flightVars>>

\* captureError(validationError, { operation, issues, responseShape })
Log ==
    /\ svc.at = "logging"
    /\ captured' = Append(captured,
                          [error |-> svc.thrown,
                           context |-> [operation |-> svc.thrown.operation,
                                        issues |-> svc.thrown.issues,
                                        responseShape |-> ResponseShape(svc.response)]])
    /\ svc' = [svc EXCEPT !.at = "throwing"]
    /\ UNCHANGED <<requests, flightVars>>

\* throw validationError: the error leaves apiRequestValidated and reaches
\* the method
Throw ==
    /\ svc.at = "throwing"
    /\ LET end == Settled(svc.method, svc.thrown)
       IN  svc' = [svc EXCEPT !.at = "settled", !.outcome = end.outcome,
                              !.value = end.value, !.error = end.error]
    /\ UNCHANGED <<requests, captured, flightVars>>

InitService ==
    /\ flightNumbers = FlightNumbers(Num(12), Num(5), Num(-1), Num(3))
    /\ throwType = "rhbh"
    /\ config = Undefined
    /\ defaultConfig = DEFAULT_CONFIG
    /\ result = NoResult
    /\ pc = "idle"
    /\ frames = [p \in Callers |-> IdleFrame]
    /\ remembered = NoCall
    /\ NoServiceCall

NextService ==
    \/ \E method \in Methods :
          \E arguments \in ArgumentsOf(method) :
             Invoke(method, arguments[1], arguments[2])
    \/ \E data \in Responses : Resolve(data)
    \/ \E error \in RequestErrors : Reject(error)
    \/ Validate
    \/ Log
    \/ Throw

SpecService == InitService /\ [][NextService]_vars

(***************************************************************************)
(* Vocabulary of the properties                                            *)
(***************************************************************************)
\* the call has returned its FlightPaths object
Returned == pc = "done" /\ result.type = "normal"

\* the canvas the call computed with
UsedConfig == ConfigOrDefault(config)

\* |x|
AbsNum(x) == IF x[1] < 0 THEN Neg(x) ELSE x

\* x <= y
LessEq(x, y) == x = y \/ Less(x, y)

\* the horizontal offset of a coordinate from the throw origin
OffsetX(x) == Sub(x, UsedConfig.startX)

\* the flight length of the current call, in pixels
CurrentFlightLength ==
    FlightLength(ToNumber(flightNumbers.speed), ToNumber(flightNumbers.glide),
                 UsedConfig.startY, UsedConfig.maxDistance)

\* 30 + 28*speed + 5*glide of the current call
UncappedDistance ==
    Add(Add(Num(30), Mul(ToNumber(flightNumbers.speed), Num(28))),
        Mul(ToNumber(flightNumbers.glide), Num(5)))

\* every coordinate of a path
Coordinates(path) == {path[i] : i \in {2, 3, 5, 6, 7, 8, 9, 10}}

\* what the same call returns for another throw type
PathsFor(type) == calculateFlightPath(flightNumbers, type, config).value

(***************************************************************************)
(* C1  Symmetry law: for the same flight numbers and canvas, 'rhbh' and    *)
(* 'lhfh' return identical hyzer, flat and anhyzer paths, and 'rhfh' and   *)
(* 'lhbh' return identical hyzer, flat and anhyzer paths.                  *)
(***************************************************************************)
SymmetryLaw ==
    Returned =>
        /\ throwType = "rhbh" => result.value = PathsFor("lhfh")
        /\ throwType = "rhfh" => result.value = PathsFor("lhbh")

\* a mirrored throw whose path differs from the unmirrored one
SymmetryWitness ==
    /\ Returned
    /\ throwType = "rhfh"
    /\ result.value = PathsFor("lhbh")
    /\ result.value.flat # PathsFor("rhbh").flat

SignConvention ==
    (/\ Returned
     /\ throwType = "rhbh"
     /\ Less(flightNumbers.turn, Num(0))
     /\ Less(Num(0), flightNumbers.fade)
     /\ Less(Num(0), CurrentFlightLength)) =>
        \A a \in ReleaseAngle :
            /\ Less(UsedConfig.startX, Cp1X(result.value[a]))
            /\ Less(EndX(result.value[a]), UsedConfig.startX)

(***************************************************************************)
(* C4  Distance cap: whenever 30 + 28*speed + 5*glide > maxDistance, the   *)
(* flight length equals availableHeight = startY - 20 and each of the      *)
(* three curves ends at y = 20.                                            *)
(***************************************************************************)
DistanceCap ==
    (Returned /\ Less(UsedConfig.maxDistance, UncappedDistance)) =>
        /\ CurrentFlightLength = Sub(UsedConfig.startY, Num(20))
        /\ \A a \in ReleaseAngle : EndY(result.value[a]) = Num(20)

\* the point (x, y) lies in the canvas rectangle
InsideCanvas(x, y) ==
    /\ LessEq(Num(0), x) /\ LessEq(x, UsedConfig.width)
    /\ LessEq(Num(0), y) /\ LessEq(y, UsedConfig.height)

(***************************************************************************)
(* C5  On the default canvas the curve never overflows the drawable area:  *)
(* the start point, both control points and the end point of every path    *)
(* lie in 0 <= x <= width, 0 <= y <= height, whatever the flight numbers.  *)
(***************************************************************************)
NeverOverflowsCanvas ==
    (Returned /\ UsedConfig = DEFAULT_CONFIG) =>
        \A a \in ReleaseAngle :
            LET path == result.value[a]
            IN  /\ InsideCanvas(StartX(path), StartY(path))
                /\ InsideCanvas(Cp1X(path), Cp1Y(path))
                /\ InsideCanvas(Cp2X(path), Cp2Y(path))
                /\ InsideCanvas(EndX(path), EndY(path))

\* C5 as amended: on the default canvas the start point lies inside the
\* canvas and the cap keeps the curve below the top margin, endY >= 20 and
\* cp1Y >= 0, whatever the flight numbers; the x-coordinates and the lower
\* edge are not guarded
NeverOverflowsTop ==
    (Returned /\ UsedConfig = DEFAULT_CONFIG) =>
        \A a \in ReleaseAngle :
            LET path == result.value[a]
            IN  /\ InsideCanvas(StartX(path), StartY(path))
                /\ LessEq(Num(20), EndY(path))
                /\ LessEq(Num(0), Cp1Y(path))

\* a capped flight on the default canvas whose end point has left the canvas
\* sideways
OverflowWitness ==
    /\ Returned
    /\ UsedConfig = DEFAULT_CONFIG
    /\ Less(UsedConfig.maxDistance, UncappedDistance)
    /\ EndY(result.value.hyzer) = Num(20)
    /\ Less(EndX(result.value.hyzer), Num(0))

\* |endX - startX| of the path of release angle a
FadeOffset(a) == AbsNum(OffsetX(EndX(result.value[a])))

\* hyzer fades more than flat, anhyzer less
FadeOrdered ==
    /\ Less(FadeOffset("flat"), FadeOffset("hyzer"))
    /\ Less(FadeOffset("anhyzer"), FadeOffset("flat"))

(***************************************************************************)
(* C6  Release-angle ordering of fade: for every input with fade # 0 the   *)
(* end point's horizontal offset |endX - startX| is strictly greater for   *)
(* the hyzer path than for the flat path, and strictly smaller for the     *)
(* anhyzer path than for the flat path.                                    *)
(***************************************************************************)
FadeOrdering == (Returned /\ flightNumbers.fade # Num(0)) => FadeOrdered

\* C6 as amended: the ordering holds for every input with fade # 0 whose
\* flight length is finite and not 0
FadeOrderingOfRealFlights ==
    (/\ Returned
     /\ flightNumbers.fade # Num(0)
     /\ IsFinite(CurrentFlightLength)
     /\ CurrentFlightLength # Num(0)) => FadeOrdered

\* a flight of negative length, where only the magnitudes are ordered
FadeOrderingWitness ==
    /\ Returned
    /\ flightNumbers.fade # Num(0)
    /\ Less(CurrentFlightLength, Num(0))
    /\ FadeOrdered

\* |cp1X - startX| of the path of release angle a
TurnOffset(a) == AbsNum(OffsetX(Cp1X(result.value[a])))

\* anhyzer turns more than flat, hyzer less
TurnOrdered ==
    /\ Less(TurnOffset("flat"), TurnOffset("anhyzer"))
    /\ Less(TurnOffset("hyzer"), TurnOffset("flat"))
    /\ result.value.anhyzer # result.value.flat

(***************************************************************************)
(* C7  Release-angle ordering of turn: for every input with turn # 0 the   *)
(* horizontal offset |cp1X - startX| of control point 1 is strictly        *)
(* greater for the anhyzer path than for the flat path and strictly        *)
(* smaller for the hyzer path than for the flat path, so the anhyzer and   *)
(* flat paths are never equal.                                             *)
(***************************************************************************)
TurnOrdering == (Returned /\ flightNumbers.turn # Num(0)) => TurnOrdered

\* C7 as amended: the ordering holds for every input with turn # 0 whose
\* flight length is finite and not 0
TurnOrderingOfRealFlights ==
    (/\ Returned
     /\ flightNumbers.turn # Num(0)
     /\ IsFinite(CurrentFlightLength)
     /\ CurrentFlightLength # Num(0)) => TurnOrdered

\* a disc with positive turn and no fade
TurnOrderingWitness ==
    /\ Returned
    /\ Less(Num(0), flightNumbers.turn)
    /\ flightNumbers.fade = Num(0)
    /\ Less(Num(0), CurrentFlightLength)
    /\ TurnOrdered

\* the flight numbers of the current call with speed raised by 1
FasterNumbers == [flightNumbers EXCEPT !.speed = Add(@, Num(1))]

\* the flight length those numbers give on the same canvas
FasterFlightLength ==
    FlightLength(FasterNumbers.speed, flightNumbers.glide,
                 UsedConfig.startY, UsedConfig.maxDistance)

NumericNumbers ==
    /\ flightNumbers # Null
    /\ \A k \in {"speed", "glide", "turn", "fade"} : flightNumbers[k] # Undefined

(***************************************************************************)
(* C9  calculateFlightPath never throws on numeric input: for every        *)
(* flight numbers value whose four fields are numbers (negative,           *)
(* out of range, NaN and Infinity included), every throw type and every    *)
(* canvas, the call returns an object with the three paths hyzer, flat and *)
(* anhyzer defined.                                                        *)
(***************************************************************************)
NeverThrows ==
    (pc = "done" /\ NumericNumbers /\ config # Null) =>
        /\ result.type = "normal"
        /\ DOMAIN result.value = ReleaseAngle
        /\ \A a \in ReleaseAngle : Len(result.value[a]) = 10

\* a call with a NaN and an infinite flight number has returned
NeverThrowsWitness ==
    /\ Returned
    /\ NumericNumbers
    /\ flightNumbers.speed = NaN
    /\ flightNumbers.fade = PosInf
    /\ flightNumbers.glide = Num(-1)

\* a field value that is missing or not a finite number
MissingOrNonFinite(v) == v \in {Undefined, NaN, PosInf, NegInf}

\* flightNumbers is an object with a missing or non-finite field
MalformedNumbers ==
    /\ flightNumbers # Null
    /\ \E k \in {"speed", "glide", "turn", "fade"} : MissingOrNonFinite(flightNumbers[k])

\* a field other than a speed of +Infinity is missing or not finite
PoisonedNumbers ==
    /\ flightNumbers # Null
    /\ \/ flightNumbers.speed \in {Undefined, NaN, NegInf}
       \/ \E k \in {"glide", "turn", "fade"} : MissingOrNonFinite(flightNumbers[k])

(***************************************************************************)
(* C10  The entry point rejects malformed input: when a flight number      *)
(* field is missing or not finite, calculateFlightPath fails with an       *)
(* InvalidInputError and produces no path, so no NaN or Infinity           *)
(* coordinate reaches the rendering layer.                                 *)
(***************************************************************************)
RejectsMalformedInput ==
    (pc = "done" /\ MalformedNumbers /\ config # Null) =>
        /\ result.type = "throw"
        /\ result.value = "InvalidInputError"

\* C10 as amended: the entry point validates nothing.  On a missing or
\* non-finite field the call throws nothing and returns the three paths;
\* unless the only such field is a speed of +Infinity (which the cap
\* absorbs), every returned path holds a NaN or infinite coordinate
MalformedInputPassesThrough ==
    (pc = "done" /\ MalformedNumbers /\ config # Null) =>
        /\ result.type = "normal"
        /\ PoisonedNumbers =>
              \A a \in ReleaseAngle :
                  \E x \in Coordinates(result.value[a]) : ~IsFinite(x)

\* a call with a missing turn and otherwise finite numbers has returned a
\* path with a NaN control point
MalformedInputWitness ==
    /\ Returned
    /\ flightNumbers.turn = Undefined
    /\ \A k \in {"speed", "glide", "fade"} : ~MissingOrNonFinite(flightNumbers[k])
    /\ Cp1X(result.value.flat) = NaN
    /\ IsFinite(EndX(result.value.flat))

(***************************************************************************)
(* C11  All arithmetic is defined: for every finite flight numbers value   *)
(* and every finite canvas, a canvas with maxDistance = 0 or startY = 20   *)
(* included, every coordinate of the three returned paths is a finite      *)
(* number.                                                                 *)
(***************************************************************************)
AllArithmeticDefined ==
    Returned =>
        \A a \in ReleaseAngle :
            \A x \in Coordinates(result.value[a]) : IsFinite(x)

(***************************************************************************)
(* C12  Determinism: two calls of calculateFlightPath with identical       *)
(* flight numbers, throw type and canvas config return identical output,   *)
(* whatever calls were made in between.                                    *)
(***************************************************************************)
Determinism ==
    (pc = "done" /\ Remembering /\ CurrentArgs = remembered.args) =>
        result = remembered.result

\* a call returned, a call with other arguments was made after it, and then
\* a call with the arguments of the first has returned
DeterminismWitness ==
    /\ Returned
    /\ Remembering
    /\ remembered.interposed
    /\ CurrentArgs = remembered.args
    /\ config = Omitted
    /\ result = remembered.result

\* what the call of an activation returns when it runs alone
AloneResult(frame) ==
    calculateFlightPath(frame.args[1], frame.args[2], frame.args[3])

(***************************************************************************)
(* C13  Calls are independent under any interleaving: a call modifies      *)
(* neither the flightNumbers argument, nor the config argument, nor        *)
(* DEFAULT_CONFIG, and however the calls in progress are interleaved, each *)
(* computes the paths it returns when run alone.                           *)
(***************************************************************************)
IndependentCalls ==
    /\ defaultConfig = DEFAULT_CONFIG
    /\ \A p \in Callers :
          frames[p].at # "idle" =>
              /\ frames[p].args[1] = flightNumbers
              /\ frames[p].args[3] \in {Omitted, config}
              /\ \A i \in 1..Len(frames[p].paths) :
                    frames[p].paths[i] = AloneResult(frames[p]).value[AngleAt(i)]

\* two calls in progress at once, one mirrored on the default canvas and
\* one not mirrored on the passed canvas, each having computed paths
IndependentCallsWitness ==
    /\ frames["a"].at = "anhyzer"
    /\ frames["b"].at = "flat"
    /\ frames["a"].args[2] = "rhfh" /\ frames["a"].args[3] = Omitted
    /\ frames["b"].args[2] = "rhbh" /\ frames["b"].args[3] = config
    /\ frames["a"].paths[2] = AloneResult(frames["a"]).value.flat
    /\ frames["b"].paths[1] = AloneResult(frames["b"]).value.hyzer
    /\ frames["a"].paths[1] # frames["b"].paths[1]

\* a finite number rounded to two decimals (half up), in hundredths
Hundredths(x) == (200 * x[1] + x[2]) \div (2 * x[2])

\* the disc of the worked scenarios on the default canvas
StandardDiscOnDefaultCanvas ==
    /\ flightNumbers = FlightNumbers(Num(12), Num(5), Num(-1), Num(3))
    /\ UsedConfig = CanvasConfig(Num(200), Num(300), Num(100), Num(280), Num(400))

(***************************************************************************)
(* C14  Scenario: speed 12, glide 5, turn -1, fade 3, 'rhbh', default      *)
(* canvas.  The flat path starts at (100, 280); the estimated distance is  *)
(* 391 and the flight length 254.15 px; the flat end point, rounded to two *)
(* decimals, is (54.25, 25.85).                                            *)
(***************************************************************************)
StandardBackhandScenario ==
    (Returned /\ StandardDiscOnDefaultCanvas /\ throwType = "rhbh") =>
        LET flat == result.value.flat
        IN  /\ StartX(flat) = Num(100)
            /\ StartY(flat) = Num(280)
            /\ MathMin(UncappedDistance, UsedConfig.maxDistance) = Num(391)
            /\ Sub(StartY(flat), EndY(flat)) = Dec(25415, 100)
            /\ Hundredths(EndX(flat)) = 5425
            /\ Hundredths(EndY(flat)) = 2585

\* the scenario's call has returned, with the canvas omitted
StandardBackhandWitness ==
    /\ Returned
    /\ StandardDiscOnDefaultCanvas
    /\ throwType = "rhbh"
    /\ config = Omitted
    /\ EndX(result.value.flat) = Dec(54253, 1000)

(***************************************************************************)
(* C15  Scenario: the same disc thrown 'rhfh' on the default canvas.  The  *)
(* flat end point, rounded to two decimals, is (145.75, 25.85): the exact  *)
(* mirror image about x = 100 of the 'rhbh' end point.                     *)
(***************************************************************************)
StandardForehandScenario ==
    (Returned /\ StandardDiscOnDefaultCanvas /\ throwType = "rhfh") =>
        LET flat == result.value.flat
            back == PathsFor("rhbh").flat
        IN  /\ Hundredths(EndX(flat)) = 14575
            /\ Hundredths(EndY(flat)) = 2585
            /\ Sub(EndX(flat), Num(100)) = Sub(Num(100), EndX(back))
            /\ EndY(flat) = EndY(back)

\* the forehand call has returned an end point right of the origin
StandardForehandWitness ==
    /\ Returned
    /\ StandardDiscOnDefaultCanvas
    /\ throwType = "rhfh"
    /\ EndX(result.value.flat) = Dec(145747, 1000)

(***************************************************************************)
(* C16  Output shape: every call returns exactly the three keys hyzer,     *)
(* flat and anhyzer, and each value is one move-to followed by one cubic   *)
(* curve, 'M x0 y0 C cx1 cy1, cx2 cy2, x1 y1': the start point, the two    *)
(* control points and the end point, eight coordinates in that order.      *)
(***************************************************************************)
OutputShape ==
    pc = "done" =>
        /\ result.type = "normal"
        /\ DOMAIN result.value = {"hyzer", "flat", "anhyzer"}
        /\ \A a \in ReleaseAngle :
              LET path == result.value[a]
                  startY == UsedConfig.startY
                  L == CurrentFlightLength
                  glide == ToNumber(flightNumbers.glide)
              IN  /\ Len(path) = 10
                  /\ path[1] = "M"
                  /\ path[4] = "C"
                  /\ \A i \in {2, 3, 5, 6, 7, 8, 9, 10} : path[i] \in Int \X Int
                  /\ path[2] = UsedConfig.startX
                  /\ path[3] = startY
                  /\ path[6] = Sub(startY, Mul(L, Dec(4, 10)))
                  /\ path[8] = Add(Sub(startY, L),
                                   Mul(Mul(glide, Num(6)), Div(L, Num(250))))
                  /\ path[10] = Sub(startY, L)

\* a returned path whose eight coordinates are eight different numbers
OutputShapeWitness ==
    /\ Returned
    /\ Len(result.value.hyzer) = 10
    /\ Cardinality(Coordinates(result.value.hyzer)) = 8
    /\ \A x \in Coordinates(result.value.hyzer) : IsFinite(x)

(***************************************************************************)
(* C17  Default canvas: a call without a config returns exactly what the   *)
(* call with the config width 200, height 300, startX 100, startY 280,     *)
(* maxDistance 400 returns, for every flight numbers value and throw type. *)
(***************************************************************************)
DefaultCanvas ==
    (pc = "done" /\ config = Omitted) =>
        result = calculateFlightPath(flightNumbers, throwType,
                    CanvasConfig(Num(200), Num(300), Num(100), Num(280), Num(400)))

\* a call without a config has returned finite paths, which are not those of
\* another canvas
DefaultCanvasWitness ==
    /\ Returned
    /\ config = Omitted
    /\ \A x \in Coordinates(result.value.hyzer) : IsFinite(x)
    /\ EndY(result.value.hyzer) = Sub(Num(280), Dec(221, 20))
    /\ result # calculateFlightPath(flightNumbers, throwType,
                    CanvasConfig(Num(120), Num(160), Num(60), Num(150), Num(100)))

\* the weights of the turn and of the fade at a release angle
ClaimedWeights(a) ==
    CASE a = "hyzer" -> <<Dec(5, 10), Dec(14, 10)>>
      [] a = "flat" -> <<Num(1), Num(1)>>
      [] a = "anhyzer" -> <<Dec(16, 10), Dec(6, 10)>>

\* the path of the current call at a release angle, assembled from the
\* closed formulas for L, s, T and F
ClaimedPath(a) ==
    LET speed == flightNumbers.speed
        glide == flightNumbers.glide
        turn == flightNumbers.turn
        fade == flightNumbers.fade
        startX == UsedConfig.startX
        startY == UsedConfig.startY
        maxDistance == UsedConfig.maxDistance
        sign == IF throwType \in {"rhfh", "lhbh"} THEN Num(-1) ELSE Num(1)
        L == Div(Mul(MathMin(Add(Add(Num(30), Mul(Num(28), speed)),
                                 Mul(Num(5), glide)), maxDistance),
                     Sub(startY, Num(20))), maxDistance)
        s == Div(L, Num(250))
        T == Mul(sign, Mul(Mul(Mul(turn, Num(10)), s), ClaimedWeights(a)[1]))
        F == Mul(sign, Mul(Mul(Mul(fade, Num(15)), s), ClaimedWeights(a)[2]))
    IN  <<"M", startX, startY, "C",
          Add(startX, T), Sub(startY, Mul(Dec(4, 10), L)),
          Sub(Add(startX, Mul(Dec(5, 10), T)), Mul(Dec(3, 10), F)),
          Add(Sub(startY, L), Mul(Mul(glide, Num(6)), s)),
          Sub(startX, F), Sub(startY, L)>>

(***************************************************************************)
(* C18  Geometry assembly: with L = min(30 + 28*speed + 5*glide,           *)
(* maxDistance) * (startY - 20) / maxDistance, s = L / 250,                *)
(* T = turn*10*s*wT and F = fade*15*s*wF (wT, wF = 0.5, 1.4 for hyzer;     *)
(* 1, 1 for flat; 1.6, 0.6 for anhyzer; both negated for 'rhfh' and        *)
(* 'lhbh'), each path has start (startX, startY), control point 1          *)
(* (startX + T, startY - 0.4*L), control point 2 (startX + 0.5*T - 0.3*F,  *)
(* startY - L + glide*6*s) and end (startX - F, startY - L).               *)
(***************************************************************************)
GeometryAssembly ==
    Returned => \A a \in ReleaseAngle : result.value[a] = ClaimedPath(a)

\* a mirrored anhyzer path with turn and fade at work: its four points lie
\* on four different verticals
GeometryAssemblyWitness ==
    /\ Returned
    /\ throwType = "lhbh"
    /\ result.value.anhyzer = ClaimedPath("anhyzer")
    /\ Cardinality({StartX(result.value.anhyzer), Cp1X(result.value.anhyzer),
                    Cp2X(result.value.anhyzer), EndX(result.value.anhyzer)}) = 4
    /\ \A x \in Coordinates(result.value.anhyzer) : IsFinite(x)

\* control point 2's y of the flat 'rhbh' path of a disc with the current
\* speed and glide that neither turns nor fades, on the current canvas
StraightCp2Y ==
    Cp2Y(generatePath([flightNumbers EXCEPT !.turn = Num(0), !.fade = Num(0)],
                      "flat", ShouldMirror("rhbh"), UsedConfig))

(***************************************************************************)
(* C19  The arc height is independent of mirroring and of turn and fade:   *)
(* for fixed speed, glide and canvas, the y-coordinate of control point 2  *)
(* is the same for every turn and fade, every throw type and every release *)
(* angle.                                                                  *)
(***************************************************************************)
ArcHeightIndependent ==
    Returned => \A a \in ReleaseAngle : Cp2Y(result.value[a]) = StraightCp2Y

\* a mirrored throw that turns and fades, with a nonzero arc height
ArcHeightWitness ==
    /\ Returned
    /\ throwType = "rhfh"
    /\ flightNumbers.turn = Num(-1)
    /\ flightNumbers.fade = Num(3)
    /\ Cp2Y(result.value.hyzer) = StraightCp2Y
    /\ IsFinite(StraightCp2Y)
    /\ Less(EndY(result.value.hyzer), Cp2Y(result.value.hyzer))
    /\ Cp2X(result.value.hyzer) # Cp2X(result.value.anhyzer)

\* the canvas of the current call has room for a flight: maxDistance > 0
\* and startY > 20
ProperCanvas ==
    /\ Less(Num(0), UsedConfig.maxDistance)
    /\ Less(Num(20), UsedConfig.startY)

ServiceSettled == svc.at = "settled"

\* the request of the call failed with an ApiError of code NOT_FOUND
RequestNotFound ==
    /\ svc.responded = "rejected"
    /\ svc.failure.class = "ApiError"
    /\ svc.failure.code = "NOT_FOUND"

\* the call resolved with null
ResolvedNull == svc.outcome = "resolved" /\ svc.value = JsNull

\* the call rejected with this error
RejectedWith(error) == svc.outcome = "rejected" /\ svc.error = error

(***************************************************************************)
(* C21  discService.getById and recoveryService.getDetails resolve with    *)
(* null exactly when the request failed with an ApiError whose code is     *)
(* NOT_FOUND; every other failure (an ApiError of another code, an error   *)
(* that is no ApiError, the ValidationError of the response validation) is *)
(* rethrown unchanged.                                                     *)
(***************************************************************************)
NullOnlyForNotFound ==
    (ServiceSettled /\ svc.method \in Catching) =>
        /\ ResolvedNull <=> RequestNotFound
        /\ (svc.responded = "rejected" /\ ~RequestNotFound) =>
              RejectedWith(svc.failure)
        /\ svc.thrown.class = "ValidationError" => RejectedWith(svc.thrown)

\* getDetails has resolved with null after its request failed with an
\* ApiError of code NOT_FOUND
NullOnlyForNotFoundWitness ==
    /\ ServiceSettled
    /\ svc.method = "recoveryService.getDetails"
    /\ RequestNotFound
    /\ ResolvedNull

\* the response of the call against the schema of its method
ResponseParse == SafeParse(SchemaOf(svc.method), svc.response)

(***************************************************************************)
(* C22  No unvalidated response reaches a caller: a method that goes       *)
(* through apiRequestValidated resolves with data only if apiRequest       *)
(* resolved with a response that passed the method's schema, and then with *)
(* the parsed data; when the response fails the schema the call rejects    *)
(* with a ValidationError and resolves with nothing.                       *)
(***************************************************************************)
OnlyValidatedResponses ==
    (ServiceSettled /\ svc.method \notin Unvalidated) =>
        /\ (svc.outcome = "resolved" /\ ~ResolvedNull) =>
              /\ svc.responded = "resolved"
              /\ ResponseParse.success
              /\ svc.value = ResponseParse.data
        /\ (svc.responded = "resolved" /\ ~ResponseParse.success) =>
              /\ svc.outcome = "rejected"
              /\ svc.error.class = "ValidationError"
              /\ svc.value = JsUndefined

\* getAll has resolved with two discs, the key the schema does not know
\* stripped from the second
OnlyValidatedResponsesWitness ==
    /\ ServiceSettled
    /\ svc.method = "discService.getAll"
    /\ svc.response = JsArray(<<ValidDisc, LongDisc>>)
    /\ svc.outcome = "resolved"
    /\ Len(svc.value[2]) = 2
    /\ svc.value # svc.response
    /\ GetField(svc.value[2][2][2], "qr_code_id") = JsNull
    /\ GetField(svc.value[2][2][2], "owner_email") = JsUndefined

\* validateApiResponse has run on the response of the call and has returned
\* or thrown
Validated == ServiceSettled /\ svc.validated

(***************************************************************************)
(* C23  validateApiResponse logs a failure exactly once and before it      *)
(* throws: when the response fails the schema captureError is called once, *)
(* and only then a ValidationError is thrown that carries the operation    *)
(* name, a non-empty list of issues and the raw data; when the response    *)
(* passes, the parsed data is returned and captureError is not called.     *)
(***************************************************************************)
LoggedOnceBeforeThrow ==
    /\ svc.at = "logging" => (captured = <<>> /\ svc.outcome = "pending")
    /\ svc.at = "throwing" => (Len(captured) = 1 /\ svc.outcome = "pending")
    /\ (Validated /\ ~ResponseParse.success) =>
          /\ Len(captured) = 1
          /\ captured[1].error = svc.thrown
          /\ RejectedWith(svc.thrown)
          /\ svc.thrown.class = "ValidationError"
          /\ svc.thrown.operation = OperationOf(svc.method)
          /\ svc.thrown.issues # <<>>
          /\ svc.thrown.rawData = svc.response
    /\ (Validated /\ ResponseParse.success) =>
          /\ captured = <<>>
          /\ svc.outcome = "resolved"
          /\ svc.value = ResponseParse.data

\* create has rejected with the ValidationError of a disc without a name,
\* logged once: one issue, at the path name
LoggedOnceWitness ==
    /\ Validated
    /\ svc.method = "discService.create"
    /\ svc.response = DiscWithoutName
    /\ Len(captured) = 1
    /\ svc.error.class = "ValidationError"
    /\ svc.error.operation = "create-disc"
    /\ Len(svc.error.issues) = 1
    /\ svc.error.issues[1].path = <<JsString("name")>>
    /\ svc.error.rawData = DiscWithoutName

\* the context handed to captureError holds the operation, the issues and
\* the response shape and nothing else
ContextOnlyShape(call) ==
    call.context = [operation |-> OperationOf(svc.method),
                    issues |-> svc.thrown.issues,
                    responseShape |-> ResponseShape(svc.response)]

(***************************************************************************)
(* C24  Validation-failure logging does not leak the raw response: what    *)
(* validateApiResponse passes to captureError holds no raw response        *)
(* values, only the operation, the issues and the top-level key names of   *)
(* the response (or its typeof when it is no object).                      *)
(***************************************************************************)
NoRawResponseLogged ==
    \A i \in 1..Len(captured) :
        /\ ContextOnlyShape(captured[i])
        /\ captured[i].error.rawData = JsUndefined

(***************************************************************************)
(* C25  Request errors propagate unchanged: for every method of            *)
(* discService and recoveryService other than getById and getDetails, when *)
(* apiRequest rejects with an error the method rejects with that same      *)
(* error, no schema validation has run and no validation failure has been  *)
(* logged.                                                                 *)
(***************************************************************************)
RequestErrorsPropagate ==
    (ServiceSettled /\ svc.method \notin Catching /\ svc.responded = "rejected") =>
        /\ RejectedWith(svc.failure)
        /\ ~svc.validated
        /\ svc.thrown = NoError
        /\ captured = <<>>

\* update has rejected with the ApiError NOT_FOUND its request failed with
RequestErrorsPropagateWitness ==
    /\ ServiceSettled
    /\ svc.method = "discService.update"
    /\ RequestNotFound
    /\ RejectedWith(ApiError("Not found", "NOT_FOUND"))
    /\ captured = <<>>

\* a service method has been called
ServiceCalled == svc.at # "idle"

(***************************************************************************)
(* C26  Recovery requests omit absent optional fields: reportFound sends a *)
(* body with only qr_code_id when no location is given; declineMeetup and  *)
(* cancelRecovery send the empty body {} when the reason is absent or the  *)
(* empty string and the body {reason} otherwise; each call issues exactly  *)
(* one request.                                                            *)
(***************************************************************************)
OptionalFieldsOmitted ==
    ServiceCalled =>
        /\ Len(requests) = 1
        /\ (svc.method = "recoveryService.reportFound"
               /\ svc.second = JsUndefined) =>
              requests[1].body = JsObject(<< <<"qr_code_id", svc.first>> >>)
        /\ svc.method \in {"recoveryService.declineMeetup",
                           "recoveryService.cancelRecovery"} =>
              requests[1].body =
                  IF svc.second \in {JsUndefined, JsString("")}
                  THEN JsObject(<<>>)
                  ELSE JsObject(<< <<"reason", svc.second>> >>)

\* cancelRecovery has settled after it was called with the empty string as
\* the reason and sent the empty body
OptionalFieldsOmittedWitness ==
    /\ ServiceSettled
    /\ svc.method = "recoveryService.cancelRecovery"
    /\ svc.second = JsString("")
    /\ Len(requests) = 1
    /\ requests[1].body = JsObject(<<>>)
    /\ requests[1].endpoint = "/functions/v1/recovery/event-1/cancel"

\* the glide of the current call lies in 0..7
TypicalGlide ==
    /\ LessEq(Num(0), ToNumber(flightNumbers.glide))
    /\ LessEq(ToNumber(flightNumbers.glide), Num(7))

StartAndHeights(path) ==
    <<StartX(path), StartY(path), Cp1Y(path), Cp2Y(path), EndY(path)>>

(***************************************************************************)
(* C28  The release angle changes horizontal offsets only: for fixed       *)
(* flight numbers, throw type and canvas, the hyzer, flat and anhyzer      *)
(* paths have the same start point and the same y-coordinates of control   *)
(* point 1, control point 2 and the end point.                             *)
(***************************************************************************)
ReleaseAngleMovesXOnly ==
    Returned =>
        \A a \in ReleaseAngle :
            StartAndHeights(result.value[a]) = StartAndHeights(result.value.flat)

\* a flight with glide whose three paths differ in the x of both control
\* points and of the end point
ReleaseAngleWitness ==
    /\ Returned
    /\ Less(Num(0), ToNumber(flightNumbers.glide))
    /\ Less(EndY(result.value.flat), Cp2Y(result.value.flat))
    /\ \A a, b \in ReleaseAngle :
          a # b => /\ Cp1X(result.value[a]) # Cp1X(result.value[b])
                   /\ Cp2X(result.value[a]) # Cp2X(result.value[b])
                   /\ EndX(result.value[a]) # EndX(result.value[b])
                   /\ StartAndHeights(result.value[a]) = StartAndHeights(result.value[b])

\* the disc of the current call neither turns nor fades
StraightDisc ==
    /\ ToNumber(flightNumbers.turn) = Num(0)
    /\ ToNumber(flightNumbers.fade) = Num(0)

\* the x-coordinates of a path
XCoordinates(path) == {StartX(path), Cp1X(path), Cp2X(path), EndX(path)}

(***************************************************************************)
(* C29  A disc with turn = 0 and fade = 0 flies straight for everyone: for *)
(* every speed, glide and canvas, all four throw types and all three       *)
(* release angles produce the same path, and every x-coordinate of that    *)
(* path equals startX.                                                     *)
(***************************************************************************)
StraightForEveryone ==
    (Returned /\ StraightDisc) =>
        /\ \A type \in ThrowType : PathsFor(type) = result.value
        /\ \A a \in ReleaseAngle :
              /\ result.value[a] = result.value.flat
              /\ XCoordinates(result.value[a]) = {UsedConfig.startX}

\* widths and heights of other canvases
OtherSizes == {Num(0), Num(1000)}

\* the canvas of the current call with another width and height
Resized(width, height) ==
    [UsedConfig EXCEPT !.width = width, !.height = height]

(***************************************************************************)
(* C30  The canvas width and height never affect the result: for every     *)
(* flight numbers value and throw type, two configs that agree on startX,  *)
(* startY and maxDistance but differ in width or height produce identical  *)
(* paths.                                                                  *)
(***************************************************************************)
SizeIgnored ==
    Returned =>
        \A width \in OtherSizes, height \in OtherSizes :
            calculateFlightPath(flightNumbers, throwType,
                                Resized(width, height)).value = result.value

\* a finite fading flight on the small canvas
SizeIgnoredWitness ==
    /\ Returned
    /\ config = SmallCanvas
    /\ \A a \in ReleaseAngle :
          \A c \in Coordinates(result.value[a]) : IsFinite(c)
    /\ EndX(result.value.flat) # UsedConfig.startX

====
